---- MODULE Spec2Model ----
(***************************************************************************)
(* A model of dr_robot's aggregation engine (src/src/aggregation.py):      *)
(* the sqlite store (tables domains and data), the extractor               *)
(* (_reverse_ip_lookup), the bulk insert (_build_db via aggregate), the    *)
(* enricher (headers), the indexer (_gen_output) and the exporter's        *)
(* queries (dump_to_file).                                                 *)
(*                                                                         *)
(* Values.  Python None and SQL NULL are the string NULL.  An ip is a      *)
(* string of IPs.  A hostname is a string of Hosts, or TUPLE, which stands *)
(* for the 3-tuple (name, aliases, addresses) socket.gethostbyaddr         *)
(* returns.  sqlite3 binds None and str and refuses a tuple.               *)
(*                                                                         *)
(* sqlite semantics the model relies on: UNIQUE(ip, hostname) treats NULLs *)
(* as distinct from each other; a failed statement leaves the open         *)
(* transaction open; UPDATE ... LIMIT 1 (a build with                      *)
(* SQLITE_ENABLE_UPDATE_DELETE_LIMIT) changes one of the matching rows,    *)
(* and which one is not specified without ORDER BY.                        *)
(***************************************************************************)
EXTENDS Integers, Sequences, FiniteSets, TLC

\* ---------------------------------------------------------------- bounds
MaxRows == 2      \* rows of table data explored
MaxLines == 2     \* lines of scanner output read by one aggregate call
MaxConcLines == 1 \* lines read by each of two aggregate calls running at once
MaxFiles == 7     \* files under the upload location
MaxBuilds == 3    \* calls of build on one Docker object

\* ---------------------------------------------------------------- values
NULL == "NULL"
TUPLE == "TUPLE"
IPs == {"1.1.1.1", "2.2.2.2"}
Hosts == {"h1.a.com", "h2.x.a.com"}
DomainNames == {"a.com", "x.a.com"}

\* self.domain.replace('.', '_')
DomainKey(d) ==
    CASE d = "a.com" -> "a_com"
      [] d = "x.a.com" -> "x_a_com"

\* hostname_reg: labels followed by "." + self.domain, matched at line start
HostnameRegMatches(h, d) ==
    \/ h = "h1.a.com" /\ d = "a.com"
    \/ h = "h2.x.a.com" /\ d \in {"a.com", "x.a.com"}

\* ---------------------------------------------------------------- state
VARIABLES
    domain,     \* self.domain of the Aggregation object in use
    data,       \* table data, in domainid (rowid) order
    domains,    \* table domains
    txn,        \* the connection's transaction: "none", "open" or "committed"
    pc,         \* position inside headers(), "idle" between calls
    ids,        \* headers: the identifier list of the running wave
    nresults,   \* headers: results of pool.map consumed by dict() so far
    hdict,      \* headers: ip_headers, then hostname_headers, in items() order
    nwritten,   \* headers: UPDATE statements of the open transaction executed
    all_ok,     \* headers: every fetch of the call so far returned headers
    file_index, \* the mapping returned by the last _gen_output call
    old,        \* headers: what the row changed by the last UPDATE held before
    watch,      \* a (hostname, ip) pair followed through the bulk inserts
    nseen,      \* per domain: bulk inserts whose batch contained watch, up to 2
    cut,        \* the last of them raised before it reached watch
    tried,      \* the domains whose INSERT of watch was executed
    dbconn,     \* the connection of the last call: "none", "open" or "closed"
    exported,   \* what the dump_to_file call in progress wrote and returns
    f_lines,    \* _reverse_ip_lookup: the lines of the file being read
    results,    \* _reverse_ip_lookup: results, one item per line read
    lookups,    \* _reverse_ip_lookup: the DNS lookups made, per line read
    t_ip,       \* _get_headers: its argument
    t_resp,     \* _get_headers: how the two requests will end
    t_pc,       \* _get_headers: position in the function
    t_http,     \* _get_headers: local http
    t_https,    \* _get_headers: local https
    queued,     \* pool.map: tasks submitted and not started
    running,    \* pool.map: tasks a worker thread is executing
    returned,   \* pool.map: tasks that have returned
    futures,    \* pool.map: the tasks whose results dict() has not taken yet
    conc,       \* two aggregate calls running at once, each on its connection
    u_files,    \* _upload_files: st_size of the files, in the order of the walk
    u_at,       \* _upload_files: files the loops have gone through
    u_pc,       \* _upload_files: "walk", "done" or "raised" ("none": no call)
    uploads,    \* _upload_files: the files uploaded, a file's id being its index
    file_ids,   \* _upload_files: local file_ids
    posts,      \* _upload_files: the file_ids of the posts created
    docker_name,   \* Docker: _docker_options has the key docker_name
    image,         \* Docker: self.image (NoImage, or the build it came from)
    error,         \* Docker: self.error
    done_building, \* Docker: self.done_building
    d_pc,          \* Docker: position inside monitor_build and build
    d_env,         \* Docker: the files build finds (template, active path)
    nbuilds        \* Docker: calls of build on the object

\* The extractor, one fetch task and the worker pool are also modelled apart
\* from the store, each with its own variables.
extractorVars == <<f_lines, results, lookups>>
taskVars == <<t_ip, t_resp, t_pc, t_http, t_https>>
poolVars == <<queued, running, returned, futures>>
uploadVars == <<u_files, u_at, u_pc, uploads, file_ids, posts>>
dockerVars == <<docker_name, image, error, done_building, d_pc, d_env,
                nbuilds>>
sideVars == <<uploadVars, dockerVars>>
apart == <<extractorVars, taskVars, poolVars, conc, sideVars>>

storeVars == <<domain, data, domains, txn, pc, ids, nresults, hdict, nwritten,
               all_ok, file_index, old, watch, nseen, cut, tried, dbconn,
               exported>>

vars == <<storeVars, apart>>

Row(ip, host, http, https, dom) ==
    [ip |-> ip, hostname |-> host, http_headers |-> http,
     https_headers |-> https, domain |-> dom]

\* ------------------------------------------------------------- extractor
\* A line of scanner output, seen through the two regexes and the resolver:
\* host/ip are what hostname_reg.match / ip_reg.match return (NULL: no match;
\* both patterns are matched at the start of the line, and no host of Hosts
\* starts with a dotted quad, so at most one of them matches), fwd is
\* gethostbyname's answer and rev is gethostbyaddr's (NULL: it raised).
LinesOf(d) ==
    {l \in [host : {h \in Hosts : HostnameRegMatches(h, d)} \cup {NULL},
            ip : IPs \cup {NULL},
            fwd : IPs \cup {NULL},
            rev : {TUPLE, NULL}] :
        /\ (l.host = NULL \/ l.ip = NULL)
        /\ (l.fwd # NULL => l.host # NULL /\ l.ip = NULL)
        /\ (l.rev # NULL => l.ip # NULL /\ l.host = NULL)}

\* ExtractLine with the last test written "if host and ip": a pair with an
\* unresolved field is dropped.
ExtractLineBothOnly(l) ==
    LET ip1 == IF l.host # NULL /\ l.ip = NULL THEN l.fwd ELSE l.ip
        host1 == IF ip1 # NULL /\ l.host = NULL
                 THEN (IF l.ip # NULL THEN l.rev ELSE l.host)
                 ELSE l.host
    IN  IF host1 # NULL /\ ip1 # NULL THEN << <<host1, ip1>> >> ELSE <<>>

\* ExtractLine without the test "if host or ip": every line appends a pair.
ExtractLineAlways(l) ==
    LET ip1 == IF l.host # NULL /\ l.ip = NULL THEN l.fwd ELSE l.ip
        host1 == IF ip1 # NULL /\ l.host = NULL
                 THEN (IF l.ip # NULL THEN l.rev ELSE l.host)
                 ELSE l.host
    IN  << <<host1, ip1>> >>

\* One iteration of the loop of _reverse_ip_lookup: the pair <<host, ip>>
\* appended to results, or <<>> when the line yields nothing.
ExtractLine(l) ==
    LET ip1 == IF l.host # NULL /\ l.ip = NULL THEN l.fwd ELSE l.ip
        host1 == IF ip1 # NULL /\ l.host = NULL
                 THEN (IF l.ip # NULL THEN l.rev ELSE l.host)
                 ELSE l.host
    IN  IF host1 # NULL \/ ip1 # NULL THEN << <<host1, ip1>> >> ELSE <<>>

RECURSIVE ReverseIpLookup(_)
ReverseIpLookup(lines) ==
    IF lines = <<>> THEN <<>>
    ELSE ExtractLine(Head(lines)) \o ReverseIpLookup(Tail(lines))

\* A line of a scanner's file by what it holds: host_in and ip_in are a
\* hostname of the domain and a dotted quad that occur in the line (NULL:
\* none), first says which of them the line starts with ("text": neither),
\* fwd and rev are the resolver's answers as in LinesOf.
TextLines(d) ==
    {l \in [host_in : {h \in Hosts : HostnameRegMatches(h, d)} \cup {NULL},
            ip_in : IPs \cup {NULL},
            first : {"host", "ip", "both", "text"},
            fwd : IPs \cup {NULL},
            rev : {TUPLE, NULL}] :
        /\ (l.first = "host" => l.host_in # NULL)
        /\ (l.first = "ip" => l.ip_in # NULL)
        /\ (l.first = "both" => l.host_in # NULL /\ l.ip_in # NULL)
        /\ (l.fwd # NULL => l.first = "host")
        /\ (l.rev # NULL => l.first = "ip")}

\* hostname_reg.match(line) and ip_reg.match(line): re.match matches at the
\* start of the line only. Both match a line such as "1.2.3.4.a.com", whose
\* first four labels read as an address ("both").
Scan(l) ==
    [host |-> IF l.first \in {"host", "both"} THEN l.host_in ELSE NULL,
     ip |-> IF l.first \in {"ip", "both"} THEN l.ip_in ELSE NULL,
     fwd |-> l.fwd,
     rev |-> l.rev]

\* socket.gethostbyname(host) is called for the line
FwdLookup(m) == m.host # NULL /\ m.ip = NULL

\* socket.gethostbyaddr(ip) is called for the line: a forward lookup leaves
\* host set, and one that raises leaves the try statement.
RevLookup(m) == m.ip # NULL /\ m.host = NULL

\* A call _reverse_ip_lookup(filename) on a file of at most MaxLines lines.
InitExtractorCalled ==
    /\ f_lines \in UNION {[1..k -> TextLines("a.com")] : k \in 1..MaxLines}
    /\ results = <<>>
    /\ lookups = <<>>

\* One iteration of the loop over f.readlines().
ReadLine ==
    /\ Len(lookups) < Len(f_lines)
    /\ LET m == Scan(f_lines[Len(lookups) + 1])
       IN  /\ results' = results \o ExtractLine(m)
           /\ lookups' = Append(lookups,
                                [fwd |-> FwdLookup(m), rev |-> RevLookup(m),
                                 n |-> Len(results \o ExtractLine(m))])
    /\ UNCHANGED f_lines

\* ----------------------------------------------------------------- store
\* sqlite3 parameter binding: None and str are bound, a tuple is refused.
Bindable(v) == v # TUPLE

\* UNIQUE(ip, hostname): a new row conflicts with a stored row that has the
\* same ip and hostname, both non-NULL (NULLs are distinct in sqlite).
UniqueConflict(tbl, ip, host) ==
    /\ ip # NULL
    /\ host # NULL
    /\ \E i \in 1..Len(tbl) : tbl[i].ip = ip /\ tbl[i].hostname = host

\* The INSERT of _build_db raises: a binding error, the UNIQUE constraint or
\* the foreign key on domains (PRAGMA foreign_keys=1).
InsertRaises(tbl, doms, host, ip, dom) ==
    \/ ~Bindable(host)
    \/ ~Bindable(ip)
    \/ UniqueConflict(tbl, ip, host)
    \/ dom \notin doms

\* The for loop of _build_db inside its try: the first INSERT that raises
\* ends the loop; the rows inserted before it stay in the transaction.
RECURSIVE InsertLoop(_, _, _, _)
InsertLoop(tbl, doms, pairs, dom) ==
    IF pairs = <<>> THEN [tbl |-> tbl, rest |-> <<>>]
    ELSE LET host == Head(pairs)[1]
             ip == Head(pairs)[2]
         IN  IF InsertRaises(tbl, doms, host, ip, dom)
             THEN [tbl |-> tbl, rest |-> Tail(pairs)]
             ELSE InsertLoop(Append(tbl, Row(ip, host, NULL, NULL, dom)),
                             doms, Tail(pairs), dom)

\* BuildDb on a table emptied first (DELETE FROM data before the loop).
BuildDbFresh(tbl, doms, pairs, dom) ==
    LET r == InsertLoop(<<>>, doms, pairs, dom)
    IN  [tbl |-> r.tbl, rest |-> r.rest, txn |-> "committed"]

\* _build_db: BEGIN TRANSACTION, the loop, the except clause, COMMIT.
BuildDb(tbl, doms, pairs, dom) ==
    LET r == InsertLoop(tbl, doms, pairs, dom)
    IN  [tbl |-> r.tbl, rest |-> r.rest, txn |-> "committed"]

\* No mapping has been returned since the store was last written.
NoIndex == [built |-> FALSE, map |-> <<>>]
\* No dump_to_file call is in progress.
NoExport == [done |-> FALSE, opts |-> <<>>, plan |-> <<>>, at |-> 0,
             written |-> <<>>, ret |-> NULL]
NoWatch == <<NULL, NULL>>
\* Docker: self.image = None
NoImage == <<>>
\* No two aggregate calls are running at once.
NoConc == [base |-> <<>>, calls |-> <<>>]
NoHeaders == <<NULL, NULL>>
DomainKeys == {DomainKey(d) : d \in DomainNames}

InitStore ==
    /\ domain = "a.com"
    /\ data = <<>>
    /\ domains = {}
    /\ txn = "none"
    /\ pc = "idle"
    /\ ids = <<>>
    /\ nresults = 0
    /\ hdict = <<>>
    /\ nwritten = 0
    /\ all_ok = TRUE
    /\ file_index = NoIndex
    /\ old = NoHeaders
    /\ nseen = [dk \in DomainKeys |-> 0]
    /\ cut = FALSE
    /\ tried = {}
    /\ dbconn = "none"
    /\ exported = NoExport

\* No file is being read.
InitExtractor ==
    /\ f_lines = <<>>
    /\ results = <<>>
    /\ lookups = <<>>

\* No fetch task is followed.
InitTask ==
    /\ t_ip = NULL
    /\ t_resp = <<NULL, NULL>>
    /\ t_pc = "none"
    /\ t_http = NULL
    /\ t_https = NULL

\* Nothing is submitted to a pool.
InitPool ==
    /\ queued = 0
    /\ running = 0
    /\ returned = 0
    /\ futures = <<>>

\* No upload is running.
InitUpload ==
    /\ u_files = <<>>
    /\ u_at = 0
    /\ u_pc = "none"
    /\ uploads = <<>>
    /\ file_ids = <<>>
    /\ posts = <<>>

\* No Docker object is followed.
InitDocker ==
    /\ docker_name = FALSE
    /\ image = NoImage
    /\ error = FALSE
    /\ done_building = FALSE
    /\ d_pc = "none"
    /\ d_env = [template |-> FALSE, writable |-> FALSE]
    /\ nbuilds = 0

InitSide == conc = NoConc /\ InitUpload /\ InitDocker

InitApart == InitExtractor /\ InitTask /\ InitPool /\ InitSide

Init == InitStore /\ InitApart /\ watch = NoWatch

\* The same program, with one (hostname, ip) pair followed.
InitWatch == InitStore /\ InitApart /\ watch \in Hosts \X IPs

\* Aggregation(db, d, out): another object on the same database file.
NewInstance(d) ==
    /\ pc = "idle"
    /\ d # domain
    /\ domain' = d
    /\ file_index' = NoIndex
    /\ exported' = NoExport
    /\ UNCHANGED <<data, domains, txn, pc, ids, nresults, hdict, nwritten,
                   all_ok, old, watch, nseen, cut, tried, dbconn, apart>>

Contains(pairs, p) == \E j \in 1..Len(pairs) : pairs[j] = p

SeqsUpTo(S, n) == UNION {[1..k -> S] : k \in 0..n}

\* all_ips of aggregate: what _reverse_ip_lookup returns for the files of
\* one call, for every content of at most MaxLines lines.
AllIps ==
    [d \in DomainNames |->
        {ReverseIpLookup(lines) : lines \in SeqsUpTo(LinesOf(d), MaxLines)}]

\* aggregate: the schema, the domain's entry, the bulk insert of all_ips.
Aggregate(pairs) ==
    /\ pc = "idle"
    /\ \E r \in {BuildDb(data, domains \cup {DomainKey(domain)}, pairs,
                         DomainKey(domain))} :
        /\ Len(r.tbl) <= MaxRows
        /\ data' = r.tbl
        /\ domains' = domains \cup {DomainKey(domain)}
        /\ txn' = r.txn
        /\ nseen' = IF Contains(pairs, watch) /\ nseen[DomainKey(domain)] < 2
                    THEN [nseen EXCEPT ![DomainKey(domain)] = @ + 1]
                    ELSE nseen
        /\ cut' = IF Contains(pairs, watch) THEN Contains(r.rest, watch)
                  ELSE cut
        /\ tried' = IF Contains(SubSeq(pairs, 1, Len(pairs) - Len(r.rest)),
                                watch)
                    THEN tried \cup {DomainKey(domain)} ELSE tried
        /\ file_index' = NoIndex
        /\ dbconn' = "closed"
        /\ exported' = NoExport
        /\ UNCHANGED <<domain, pc, ids, nresults, hdict, nwritten, all_ok,
                       old, watch, apart>>

AggregateCall ==
    /\ pc = "idle"
    /\ \E pairs \in AllIps[domain] : Aggregate(pairs)

\* ------------------------------------------------- concurrent ingestion
\* Two aggregate calls for one domain and one database file run at once,
\* each on its own connection.  sqlite lets one connection write at a time:
\* the first INSERT of a transaction takes the write lock, a connection that
\* finds it taken waits for it, for at most the timeout of sqlite3.connect
\* (its default, 5 seconds), and then its statement raises
\* sqlite3.OperationalError (database is locked).

\* all_ips of each of the two calls, for files of at most MaxConcLines lines.
ConcIps ==
    [d \in DomainNames |->
        {ReverseIpLookup(lines) : lines \in SeqsUpTo(LinesOf(d), MaxConcLines)}]

ConcCall(pairs) == [pc |-> "begin", pairs |-> pairs, tbl |-> <<>>]

\* The first INSERT of the batch is executed and asks for the write lock: the
\* batch is not empty and its first pair can be bound.
TakesLock(pairs) ==
    /\ pairs # <<>>
    /\ Bindable(Head(pairs)[1])
    /\ Bindable(Head(pairs)[2])

\* The calls that hold the write lock.
Writing == {c \in 1..Len(conc.calls) : conc.calls[c].pc = "writing"}

\* Both calls connect, create the schema and commit the domain's entry.
ConcurrentBegin(pa, pb) ==
    /\ pc = "idle"
    /\ pc' = "conc"
    /\ conc' = [base |-> data, calls |-> <<ConcCall(pa), ConcCall(pb)>>]
    /\ domains' = domains \cup {DomainKey(domain)}
    /\ file_index' = NoIndex
    /\ exported' = NoExport
    /\ dbconn' = "open"
    /\ UNCHANGED <<domain, data, txn, ids, nresults, hdict, nwritten, all_ok,
                   old, watch, nseen, cut, tried, extractorVars, taskVars,
                   poolVars, sideVars>>

\* _build_db of call c: BEGIN TRANSACTION, the first INSERT gets the write
\* lock, and the loop runs on the table as committed so far.
InsertWithLock(c) ==
    /\ pc = "conc"
    /\ conc.calls[c].pc = "begin"
    /\ TakesLock(conc.calls[c].pairs)
    /\ Writing = {}
    /\ LET r == InsertLoop(data, domains, conc.calls[c].pairs,
                           DomainKey(domain))
       IN  /\ Len(r.tbl) <= MaxRows
           /\ conc' = [conc EXCEPT !.calls[c].pc = "writing",
                                   !.calls[c].tbl = r.tbl]
    /\ UNCHANGED <<storeVars, extractorVars, taskVars, poolVars, sideVars>>

\* _build_db of call c when the other call holds the write lock for longer
\* than the timeout: the first INSERT raises, the except BaseException clause
\* prints and ends the loop, and COMMIT ends a transaction that wrote nothing.
InsertLockedOut(c) ==
    /\ pc = "conc"
    /\ conc.calls[c].pc = "begin"
    /\ TakesLock(conc.calls[c].pairs)
    /\ Writing # {}
    /\ conc' = [conc EXCEPT !.calls[c].pc = "done"]
    /\ UNCHANGED <<storeVars, extractorVars, taskVars, poolVars, sideVars>>

\* _build_db of call c when no INSERT is executed: the batch is empty, or the
\* binding of its first pair raises.  COMMIT ends a transaction that wrote
\* nothing.
InsertNothing(c) ==
    /\ pc = "conc"
    /\ conc.calls[c].pc = "begin"
    /\ ~TakesLock(conc.calls[c].pairs)
    /\ conc' = [conc EXCEPT !.calls[c].pc = "done"]
    /\ UNCHANGED <<storeVars, extractorVars, taskVars, poolVars, sideVars>>

\* COMMIT of _build_db, dbconn.commit() and the finally clause of call c.
ConcurrentCommit(c) ==
    /\ pc = "conc"
    /\ conc.calls[c].pc = "writing"
    /\ data' = conc.calls[c].tbl
    /\ txn' = "committed"
    /\ conc' = [conc EXCEPT !.calls[c].pc = "done"]
    /\ UNCHANGED <<domain, domains, pc, ids, nresults, hdict, nwritten, all_ok,
                   file_index, old, watch, nseen, cut, tried, dbconn, exported,
                   extractorVars, taskVars, poolVars, sideVars>>

\* Both calls have returned.
ConcurrentReturn ==
    /\ pc = "conc"
    /\ \A c \in 1..Len(conc.calls) : conc.calls[c].pc = "done"
    /\ pc' = "idle"
    /\ conc' = NoConc
    /\ dbconn' = "closed"
    /\ UNCHANGED <<domain, data, domains, txn, ids, nresults, hdict, nwritten,
                   all_ok, file_index, old, watch, nseen, cut, tried, exported,
                   extractorVars, taskVars, poolVars, sideVars>>

\* -------------------------------------------------------------- enricher
HttpValues == {"X"}
HttpsValues == {"Y"}

\* What _get_headers returns for one identifier: str(headers) per protocol,
\* None for a request that raised.
FetchOutcomes == [http : HttpValues \cup {NULL}, https : HttpsValues \cup {NULL}]

\* SELECT ip FROM data WHERE ip IS NOT NULL AND domain=..., one item per row.
RECURSIVE IpsQuery(_, _)
IpsQuery(tbl, dk) ==
    IF tbl = <<>> THEN <<>>
    ELSE (IF Head(tbl).ip # NULL /\ Head(tbl).domain = dk
          THEN <<Head(tbl).ip>> ELSE <<>>) \o IpsQuery(Tail(tbl), dk)

\* The query that fills hostnames in headers(): it selects the column ip.
HostnamesQuery(tbl, dk) == IpsQuery(tbl, dk)

\* dict(...) taking the next (key, value) of pool.map: a key already in the
\* dict keeps its place and gets the new value, a new key goes last.
DictPut(d, key, o) ==
    IF \E j \in 1..Len(d) : d[j].key = key
    THEN [j \in 1..Len(d) |->
            IF d[j].key = key
            THEN [key |-> key, http |-> o.http, https |-> o.https]
            ELSE d[j]]
    ELSE Append(d, [key |-> key, http |-> o.http, https |-> o.https])

\* Rows matched by WHERE <col> = ? AND domain = ? (a NULL never equals).
Matching(tbl, col, key, dk) ==
    {i \in 1..Len(tbl) :
        /\ key # NULL
        /\ tbl[i].domain = dk
        /\ (IF col = "ip" THEN tbl[i].ip ELSE tbl[i].hostname) = key}

\* SetHeaders with a SET clause that names http_headers only.
SetHeadersHttpOnly(tbl, rows, http, https) ==
    [i \in 1..Len(tbl) |->
        IF i \in rows THEN [tbl[i] EXCEPT !.http_headers = http] ELSE tbl[i]]

SetHeaders(tbl, rows, http, https) ==
    [i \in 1..Len(tbl) |->
        IF i \in rows
        THEN [tbl[i] EXCEPT !.http_headers = http, !.https_headers = https]
        ELSE tbl[i]]

\* UpdateLimit1 with the LIMIT 1 left out: every matching row is changed.
UpdateNoLimit(tbl, col, key, dk, http, https) ==
    {SetHeaders(tbl, Matching(tbl, col, key, dk), http, https)}

\* UPDATE data SET http_headers=?, https_headers=? WHERE <col> = ? AND
\* domain = ? LIMIT 1: the tables the statement can leave.  Without ORDER BY
\* the row the LIMIT keeps is any one of the matching rows.
UpdateLimit1(tbl, col, key, dk, http, https) ==
    IF Matching(tbl, col, key, dk) = {} THEN {tbl}
    ELSE {SetHeaders(tbl, {i}, http, https) : i \in Matching(tbl, col, key, dk)}

\* headers(): connect, the IP selection, the first pool.map is submitted
HeadersBegin ==
    /\ pc = "idle"
    /\ domains # {}
    /\ pc' = "fetch1"
    /\ ids' = IpsQuery(data, DomainKey(domain))
    /\ nresults' = 0
    /\ hdict' = <<>>
    /\ all_ok' = TRUE
    /\ txn' = "none"
    /\ file_index' = NoIndex
    /\ dbconn' = "open"
    /\ exported' = NoExport
    /\ UNCHANGED <<domain, data, domains, nwritten, old, watch, nseen, cut,
                   tried, apart>>

\* dict() takes the next result of pool.map: the task of ids[nresults + 1]
\* has returned o.  pool.map yields results in the order of ids.
FetchDone(o) ==
    /\ pc \in {"fetch1", "fetch2"}
    /\ nresults < Len(ids)
    /\ hdict' = DictPut(hdict, ids[nresults + 1], o)
    /\ nresults' = nresults + 1
    /\ all_ok' = (all_ok /\ o.http # NULL /\ o.https # NULL)
    /\ UNCHANGED <<domain, data, domains, txn, pc, ids, nwritten, file_index,
                   old, watch, nseen, cut, tried, dbconn, exported, apart>>

\* WaveJoin for a pool that is not waited for: BEGIN TRANSACTION while
\* results are outstanding.
WaveJoinEarly ==
    /\ pc \in {"fetch1", "fetch2"}
    /\ pc' = IF pc = "fetch1" THEN "write1" ELSE "write2"
    /\ nwritten' = 0
    /\ txn' = "open"
    /\ UNCHANGED <<domain, data, domains, ids, nresults, hdict, all_ok,
                   file_index, old, watch, nseen, cut, tried, dbconn,
                   exported, apart>>

\* The with block ends with every result consumed; BEGIN TRANSACTION.
WaveJoin ==
    /\ pc \in {"fetch1", "fetch2"}
    /\ nresults = Len(ids)
    /\ pc' = IF pc = "fetch1" THEN "write1" ELSE "write2"
    /\ nwritten' = 0
    /\ txn' = "open"
    /\ UNCHANGED <<domain, data, domains, ids, nresults, hdict, all_ok,
                   file_index, old, watch, nseen, cut, tried, dbconn,
                   exported, apart>>

\* One iteration of a write-back loop: the UPDATE for the next dict item.
WriteBack ==
    /\ pc \in {"write1", "write2"}
    /\ nwritten < Len(hdict)
    /\ data' \in UpdateLimit1(data, IF pc = "write1" THEN "ip" ELSE "hostname",
                              hdict[nwritten + 1].key, DomainKey(domain),
                              hdict[nwritten + 1].http,
                              hdict[nwritten + 1].https)
    /\ old' = IF \E i \in 1..Len(data) : data'[i] # data[i]
              THEN LET i == CHOOSE i \in 1..Len(data) : data'[i] # data[i]
                   IN  <<data[i].http_headers, data[i].https_headers>>
              ELSE NoHeaders
    /\ nwritten' = nwritten + 1
    /\ UNCHANGED <<domain, domains, txn, pc, ids, nresults, hdict, all_ok,
                   file_index, watch, nseen, cut, tried, dbconn, exported,
                   apart>>

\* CommitIpWave with the COMMIT left for later: the second selection and the
\* second pool.map inside the IP wave's transaction.
CommitIpWaveLate ==
    /\ pc = "write1"
    /\ nwritten = Len(hdict)
    /\ pc' = "fetch2"
    /\ ids' = HostnamesQuery(data, DomainKey(domain))
    /\ nresults' = 0
    /\ hdict' = <<>>
    /\ nwritten' = 0
    /\ old' = NoHeaders
    /\ UNCHANGED <<domain, data, domains, txn, all_ok, file_index, watch,
                   nseen, cut, tried, dbconn, exported, apart>>

\* COMMIT of the IP wave, the second selection, the second pool.map
CommitIpWave ==
    /\ pc = "write1"
    /\ nwritten = Len(hdict)
    /\ txn' = "committed"
    /\ pc' = "fetch2"
    /\ ids' = HostnamesQuery(data, DomainKey(domain))
    /\ nresults' = 0
    /\ hdict' = <<>>
    /\ nwritten' = 0
    /\ old' = NoHeaders
    /\ UNCHANGED <<domain, data, domains, all_ok, file_index, watch, nseen,
                   cut, tried, dbconn, exported, apart>>

\* COMMIT of the second wave, dbconn.close(), return
CommitHostnameWave ==
    /\ pc = "write2"
    /\ nwritten = Len(hdict)
    /\ txn' = "committed"
    /\ pc' = "idle"
    /\ ids' = <<>>
    /\ nresults' = 0
    /\ hdict' = <<>>
    /\ nwritten' = 0
    /\ all_ok' = TRUE
    /\ old' = NoHeaders
    /\ dbconn' = "closed"
    /\ UNCHANGED <<domain, data, domains, file_index, watch, nseen, cut,
                   tried, exported, apart>>

Headers ==
    \/ HeadersBegin
    \/ \E o \in FetchOutcomes : FetchDone(o)
    \/ WaveJoin
    \/ WriteBack
    \/ CommitIpWave
    \/ CommitHostnameWave

\* -------------------------------------------------------- storage errors
\* The statements of aggregate and headers that the store can fail:
\* sqlite3.connect, a CREATE TABLE, a COMMIT.
StorageFailures == {"open", "schema", "commit"}

\* aggregate when sqlite3.connect, a CREATE TABLE, or the COMMIT of
\* _build_db raises: nothing catches it, the finally clause runs
\* dbconn.close() (with dbconn unbound when connect raised), and the
\* exception reaches the caller.  Closing rolls the open transaction back;
\* the domain's entry was committed before the bulk insert.
AggregateRaise(kind) ==
    /\ pc = "idle"
    /\ pc' = "raised"
    /\ dbconn' = IF kind = "open" THEN "none" ELSE "closed"
    /\ domains' = IF kind = "commit" THEN domains \cup {DomainKey(domain)}
                  ELSE domains
    /\ txn' = "none"
    /\ file_index' = NoIndex
    /\ UNCHANGED <<domain, data, ids, nresults, hdict, nwritten, all_ok, old,
                   watch, nseen, cut, tried, exported, apart>>

\* headers when sqlite3.connect raises (before any statement), or when the
\* COMMIT of a wave raises: headers has no try statement, the exception
\* leaves the function before dbconn.close() is reached.
HeadersRaise(kind) ==
    /\ \/ kind = "open" /\ pc = "idle" /\ domains # {}
       \/ kind = "commit" /\ pc \in {"write1", "write2"}
                          /\ nwritten = Len(hdict)
    /\ pc' = "raised"
    /\ dbconn' = IF kind = "open" THEN "none" ELSE dbconn
    /\ file_index' = NoIndex
    /\ UNCHANGED <<domain, data, domains, txn, ids, nresults, hdict, nwritten,
                   all_ok, old, watch, nseen, cut, tried, exported, apart>>

\* ----------------------------------------------------------- worker pool
\* ThreadPoolExecutor(max_workers=40)
max_workers == 40

\* The largest number of identifiers of a wave explored.
MaxTasks == 42

\* pool.map(f, ids) on a new pool: every task is submitted at once.
InitPoolCalled ==
    /\ queued \in 0..MaxTasks
    /\ running = 0
    /\ returned = 0
    /\ futures = <<>>

\* TaskStart for a pool that starts a thread per submitted task.
TaskStartUnbounded ==
    /\ queued > 0
    /\ queued' = queued - 1
    /\ running' = running + 1
    /\ UNCHANGED <<storeVars, extractorVars, taskVars, returned, futures, conc, sideVars>>

\* A worker thread takes a task from the queue: the pool has at most
\* max_workers threads, each running one task at a time.
TaskStart ==
    /\ queued > 0
    /\ running < max_workers
    /\ queued' = queued - 1
    /\ running' = running + 1
    /\ UNCHANGED <<storeVars, extractorVars, taskVars, returned, futures, conc, sideVars>>

\* A running task returns.
TaskReturn ==
    /\ running > 0
    /\ running' = running - 1
    /\ returned' = returned + 1
    /\ UNCHANGED <<storeVars, extractorVars, taskVars, queued, futures, conc, sideVars>>

\* ------------------------------------------------------------ fetch task
\* How a requests.get of _get_headers ends: with a response, whose headers
\* are then read, or with one of the exceptions of requests.
RequestFailures == {"timeout", "refused", "tls"}
Responses == {"headers"} \cup RequestFailures

\* AfterHttp without the except clause: a failed request leaves the function.
AfterHttpUncaught(r) ==
    IF r = "headers"
    THEN [http |-> CHOOSE v \in HttpValues : TRUE, to |-> "https"]
    ELSE [http |-> NULL, to |-> "raised"]

\* The first try statement: http = str(requests.get(...).headers), or the
\* except Exception clause, which logs and leaves http None.
AfterHttp(r) ==
    IF r = "headers"
    THEN [http |-> CHOOSE v \in HttpValues : TRUE, to |-> "https"]
    ELSE [http |-> NULL, to |-> "https"]

\* AfterHttps without the except clause: a failed request ends the task with
\* the exception, and no result is returned.
AfterHttpsUncaught(r) ==
    IF r = "headers"
    THEN [https |-> CHOOSE v \in HttpsValues : TRUE, to |-> "returned"]
    ELSE [https |-> NULL, to |-> "raised"]

\* The second try statement and the return: https = str(...), or the except
\* BaseException clause, which logs and leaves https None.
AfterHttps(r) ==
    IF r = "headers"
    THEN [https |-> CHOOSE v \in HttpsValues : TRUE, to |-> "returned"]
    ELSE [https |-> NULL, to |-> "returned"]

\* A call _get_headers(ip) whose two requests will end as t_resp says.
InitTaskCalled ==
    /\ t_ip \in IPs \cup Hosts
    /\ t_resp \in Responses \X Responses
    /\ t_pc = "http"
    /\ t_http = NULL
    /\ t_https = NULL

HttpRequest ==
    /\ t_pc = "http"
    /\ t_http' = AfterHttp(t_resp[1]).http
    /\ t_pc' = AfterHttp(t_resp[1]).to
    /\ UNCHANGED <<storeVars, extractorVars, poolVars, conc, sideVars, t_ip, t_resp, t_https>>

\* The HTTPS request, then return ip, (http, https)
HttpsRequest ==
    /\ t_pc = "https"
    /\ t_https' = AfterHttps(t_resp[2]).https
    /\ t_pc' = AfterHttps(t_resp[2]).to
    /\ UNCHANGED <<storeVars, extractorVars, poolVars, conc, sideVars, t_ip, t_resp, t_http>>

\* ------------------------------------------------- the tasks of one wave
\* The wave of headers() with its tasks followed one by one: futures holds,
\* in the order of ids, the tasks whose results dict() has not taken; a task
\* is queued, then runs its HTTP request (st "http"), then its HTTPS request
\* ("https"), then has returned.  timed says that a request of the task
\* ended by its timeout.
NewFuture == [st |-> "queued", http |-> NULL, https |-> NULL, timed |-> FALSE]

\* The tasks a worker thread of the pool is executing.
Executing == {i \in 1..Len(futures) : futures[i].st \in {"http", "https"}}

\* with ThreadPoolExecutor(max_workers=40) as pool: pool.map(..., ids)
\* submits one task per identifier.
PoolMap ==
    /\ pc \in {"fetch1", "fetch2"}
    /\ nresults = 0
    /\ Len(ids) > 0
    /\ futures = <<>>
    /\ futures' = [i \in 1..Len(ids) |-> NewFuture]
    /\ UNCHANGED <<storeVars, extractorVars, taskVars, queued, running,
                   returned, conc, sideVars>>

\* A worker thread takes the oldest queued task; the pool has at most
\* max_workers threads.
WorkerStart(i) ==
    /\ i \in 1..Len(futures)
    /\ futures[i].st = "queued"
    /\ \A j \in 1..(i - 1) : futures[j].st # "queued"
    /\ Cardinality(Executing) < max_workers
    /\ futures' = [futures EXCEPT ![i].st = "http"]
    /\ UNCHANGED <<storeVars, extractorVars, taskVars, queued, running,
                   returned, conc, sideVars>>

\* The HTTP request of task i ends, with a response or an exception.
TaskHttp(i) ==
    /\ i \in 1..Len(futures)
    /\ futures[i].st = "http"
    /\ \E r \in Responses :
          futures' = [futures EXCEPT ![i] =
                         [st |-> AfterHttp(r).to,
                          http |-> AfterHttp(r).http,
                          https |-> NULL,
                          timed |-> r = "timeout"]]
    /\ UNCHANGED <<storeVars, extractorVars, taskVars, queued, running,
                   returned, conc, sideVars>>

\* The HTTPS request of task i ends and the task returns.
TaskHttps(i) ==
    /\ i \in 1..Len(futures)
    /\ futures[i].st = "https"
    /\ \E r \in Responses :
          futures' = [futures EXCEPT ![i] =
                         [st |-> AfterHttps(r).to,
                          http |-> futures[i].http,
                          https |-> AfterHttps(r).https,
                          timed |-> futures[i].timed \/ r = "timeout"]]
    /\ UNCHANGED <<storeVars, extractorVars, taskVars, queued, running,
                   returned, conc, sideVars>>

\* dict() takes the next result of pool.map, which waits for the oldest
\* task not yet taken.
TakeResult ==
    /\ pc \in {"fetch1", "fetch2"}
    /\ nresults < Len(ids)
    /\ futures # <<>>
    /\ Head(futures).st = "returned"
    /\ hdict' = DictPut(hdict, ids[nresults + 1],
                        [http |-> Head(futures).http,
                         https |-> Head(futures).https])
    /\ nresults' = nresults + 1
    /\ all_ok' = (all_ok /\ Head(futures).http # NULL
                         /\ Head(futures).https # NULL)
    /\ futures' = Tail(futures)
    /\ UNCHANGED <<domain, data, domains, txn, pc, ids, nwritten, file_index,
                   old, watch, nseen, cut, tried, dbconn, exported,
                   extractorVars, taskVars, queued, running, returned, conc, sideVars>>

\* ---------------------------------------------------------------- upload
\* Mattermost._upload_files (src/src/upload.py).  A file is its st_size in
\* bytes; the id upload_file returns for a file is the file's place in the
\* walk.
MaxUploadMiB == 49
PostSize == 5

\* The sizes explored: an empty file, a file of 49 MiB to the byte, and one a
\* byte larger.
Sizes == {0, MaxUploadMiB * 1024 * 1024, MaxUploadMiB * 1024 * 1024 + 1}

\* TooBig with the test written >= 49.
TooBigFrom49(size) == size >= MaxUploadMiB * (1024 * 1024)

\* stat(...).st_size / 1024 ** 2 > 49: the division is a float division by a
\* power of two, exact for every file size, so the test is a comparison of
\* the size in bytes with 49 * 1024 ** 2.
TooBig(size) == size > MaxUploadMiB * (1024 * 1024)

\* A call _upload_files(file_location, channel_id) on a tree of at most
\* MaxFiles files.
InitUploadCalled ==
    /\ u_files \in UNION {[1..k -> Sizes] : k \in 0..MaxFiles}
    /\ u_at = 0
    /\ u_pc = "walk"
    /\ uploads = <<>>
    /\ file_ids = <<>>
    /\ posts = <<>>

\* One iteration of the inner loop: the file is skipped, or uploaded, and a
\* post is created when file_ids has reached five ids.
NextFile ==
    /\ u_pc = "walk"
    /\ u_at < Len(u_files)
    /\ u_at' = u_at + 1
    /\ IF TooBig(u_files[u_at + 1])
       THEN UNCHANGED <<uploads, file_ids, posts>>
       ELSE /\ uploads' = Append(uploads, u_at + 1)
            /\ IF Len(Append(file_ids, u_at + 1)) >= PostSize
               THEN /\ posts' = Append(posts, Append(file_ids, u_at + 1))
                    /\ file_ids' = <<>>
               ELSE /\ posts' = posts
                    /\ file_ids' = Append(file_ids, u_at + 1)
    /\ UNCHANGED <<storeVars, extractorVars, taskVars, poolVars, conc,
                   dockerVars, u_files, u_pc>>

\* stat or open of the next file raises OSError (a broken link, a file that
\* cannot be read): the exception leaves _upload_files.
FileRaises ==
    /\ u_pc = "walk"
    /\ u_at < Len(u_files)
    /\ u_pc' = "raised"
    /\ UNCHANGED <<storeVars, extractorVars, taskVars, poolVars, conc,
                   dockerVars, u_files, u_at, uploads, file_ids, posts>>

\* The walk has ended: the ids left in file_ids go into a last post.
EndOfWalk ==
    /\ u_pc = "walk"
    /\ u_at = Len(u_files)
    /\ posts' = IF Len(file_ids) > 0 THEN Append(posts, file_ids) ELSE posts
    /\ u_pc' = "done"
    /\ UNCHANGED <<storeVars, extractorVars, taskVars, poolVars, conc,
                   dockerVars, u_files, u_at, uploads, file_ids>>

\* ---------------------------------------------------------------- Docker
\* Docker.build and Docker.monitor_build (src/src/robot_api/api/dockerize.py).
\* How client.images.build, with the open() before it, can end among the
\* outcomes build handles.
BuildResponses == {"image", "BuildError", "APIError", "OSError"}

\* The end of the try statement of build and its except clauses: what the
\* call assigns for a response of the daemon.
AfterBuild(resp) ==
    [image |-> resp = "image", done |-> resp = "image", error |-> resp # "image"]

\* The condition of the while loop of monitor_build.
LoopCondition == image = NoImage /\ ~error /\ ~done_building

\* Docker(docker_options=..., ...): a new object, with or without the key
\* docker_name in its options.
InitDockerObject ==
    /\ docker_name \in BOOLEAN
    /\ image = NoImage
    /\ error = FALSE
    /\ done_building = FALSE
    /\ d_pc = "idle"
    /\ d_env = [template |-> FALSE, writable |-> FALSE]
    /\ nbuilds = 0

\* monitor_build: target=self.build() calls build in the calling thread.
\* template: the default configuration file exists; writable: the active
\* configuration file can be written.
MonitorBuild(template, writable) ==
    /\ d_pc = "idle"
    /\ nbuilds < MaxBuilds
    /\ d_pc' = "init_config"
    /\ d_env' = [template |-> template, writable |-> writable]
    /\ nbuilds' = nbuilds + 1
    /\ UNCHANGED <<storeVars, extractorVars, taskVars, poolVars, conc,
                   uploadVars, docker_name, image, error, done_building>>

\* self._init_config(): OSError when the template is missing or the active
\* file cannot be written; except OSError sets error.
InitConfig ==
    /\ d_pc = "init_config"
    /\ IF d_env.template /\ d_env.writable
       THEN d_pc' = "print" /\ error' = error
       ELSE d_pc' = "polling" /\ error' = TRUE
    /\ UNCHANGED <<storeVars, extractorVars, taskVars, poolVars, conc,
                   uploadVars, docker_name, image, done_building, d_env,
                   nbuilds>>

\* self._print(f"... {self._docker_options['docker_name']} ..."): KeyError
\* when the key is missing; except KeyError sets error.
PrintOptions ==
    /\ d_pc = "print"
    /\ IF docker_name
       THEN d_pc' = "build" /\ error' = error
       ELSE d_pc' = "polling" /\ error' = TRUE
    /\ UNCHANGED <<storeVars, extractorVars, taskVars, poolVars, conc,
                   uploadVars, docker_name, image, done_building, d_env,
                   nbuilds>>

\* self.image = self.client.images.build(...); self.done_building = True, or
\* one of the except clauses; build returns to monitor_build.
ImagesBuild(resp) ==
    /\ d_pc = "build"
    /\ image' = IF AfterBuild(resp).image THEN <<nbuilds>> ELSE image
    /\ done_building' = (done_building \/ AfterBuild(resp).done)
    /\ error' = (error \/ AfterBuild(resp).error)
    /\ d_pc' = "polling"
    /\ UNCHANGED <<storeVars, extractorVars, taskVars, poolVars, conc,
                   uploadVars, docker_name, d_env, nbuilds>>

\* The while loop of monitor_build finds its condition false and
\* monitor_build returns.  (While the condition holds the loop sleeps and
\* tests it again; nothing else assigns the three attributes meanwhile.)
MonitorExit ==
    /\ d_pc = "polling"
    /\ ~LoopCondition
    /\ d_pc' = "idle"
    /\ UNCHANGED <<storeVars, extractorVars, taskVars, poolVars, conc,
                   uploadVars, docker_name, image, error, done_building,
                   d_env, nbuilds>>

\* -------------------------------------------------------------- exporter
\* "{}".format(v) and f"{v}": None is written None.
Format(v) == IF v = NULL THEN "None" ELSE v

\* SELECT DISTINCT ip, hostname, http_headers, https_headers FROM data WHERE
\* domain=... AND (http_headers IS NOT NULL AND https_headers IS NOT NULL)
HeadersQuery(tbl, dk) ==
    {[ip |-> tbl[i].ip, hostname |-> tbl[i].hostname,
      http_headers |-> tbl[i].http_headers,
      https_headers |-> tbl[i].https_headers] :
        i \in {j \in 1..Len(tbl) : /\ tbl[j].domain = dk
                                   /\ tbl[j].http_headers # NULL
                                   /\ tbl[j].https_headers # NULL}}

\* The orders in which a SELECT DISTINCT without ORDER BY can return S.
Orders(S) ==
    {f \in [1..Cardinality(S) -> S] :
        \A a, b \in 1..Cardinality(S) : a # b => f[a] # f[b]}

\* DumpIpsQuery with the WHERE clause's domain test left out.
DumpIpsQueryAnyDomain(tbl, dk) ==
    {tbl[i].ip : i \in {j \in 1..Len(tbl) : tbl[j].ip # NULL}}

\* SELECT DISTINCT ip FROM data WHERE domain=... AND ip IS NOT NULL
DumpIpsQuery(tbl, dk) ==
    {tbl[i].ip : i \in {j \in 1..Len(tbl) : /\ tbl[j].domain = dk
                                           /\ tbl[j].ip # NULL}}

\* SELECT DISTINCT hostname FROM data WHERE domain=... AND hostname IS NOT NULL
DumpHostnamesQuery(tbl, dk) ==
    {tbl[i].hostname : i \in {j \in 1..Len(tbl) : /\ tbl[j].domain = dk
                                                 /\ tbl[j].hostname # NULL}}

IpsFile == "aggregated/aggregated_ips.txt"
HostnamesFile == "aggregated/aggregated_hostnames.txt"
ProtocolFile == "aggregated/aggregated_protocol_hostnames.txt"

\* "\n".join(list(ip[0] for ip in ips)), as the lines of the file
IpLines(ips) == ips

\* "\n".join(list(f"{host[0]}" for host in hostnames))
HostnameLines(hostnames) == [j \in 1..Len(hostnames) |-> Format(hostnames[j])]

\* "\n".join(list(f"https://{host[0]}\nhttp://{host[0]}" for host in
\* hostnames)): two lines per hostname, a line being <<scheme, host>>
ProtocolLines(hostnames) ==
    [j \in 1..2 * Len(hostnames) |->
        IF j % 2 = 1 THEN <<"https://", Format(hostnames[(j + 1) \div 2])>>
        ELSE <<"http://", Format(hostnames[j \div 2])>>]

\* The header files, one open(..., 'w') per row of headers:
\* headers/<Hostname>_headers.txt holding json.dumps of the row.
HeaderFiles(rows) ==
    [j \in 1..Len(rows) |->
        [name |-> <<"headers/", Format(rows[j].hostname), "_headers.txt">>,
         lines |-> <<rows[j]>>]]

\* The output steps of dump_to_file in the order of the code, for the three
\* options and the three query results.
OutputSteps(dump_ips, dump_hostnames, dump_headers, ips, hostnames, rows) ==
    (IF dump_ips THEN <<[name |-> IpsFile, lines |-> IpLines(ips)]>> ELSE <<>>)
    \o (IF dump_hostnames
        THEN <<[name |-> HostnamesFile, lines |-> HostnameLines(hostnames)],
               [name |-> ProtocolFile, lines |-> ProtocolLines(hostnames)]>>
        ELSE <<>>)
    \o (IF dump_headers THEN HeaderFiles(rows) ELSE <<>>)

\* The value dump_to_file returns when no step raised: the function ends
\* without a return statement.
ReturnAtEnd == "None"

\* The value of the bare return in the except clause.
ReturnInExcept == "None"

\* The output steps a dump_to_file call can plan: the three queries return
\* their rows in some order.
Plans(tbl, dk, dump_ips, dump_hostnames, dump_headers) ==
    {OutputSteps(dump_ips, dump_hostnames, dump_headers, ips, hostnames, rows) :
        ips \in Orders(DumpIpsQuery(tbl, dk)),
        hostnames \in Orders(DumpHostnamesQuery(tbl, dk)),
        rows \in Orders(HeadersQuery(tbl, dk))}

\* dump_to_file up to the end of its try statement: connect, the three
\* queries, then the output steps.  at = 0: no step raises, the function goes
\* on to its end; at = k: the open() or the write of step k raises and the
\* except clause prints and reaches its return.
DumpToFile(dump_ips, dump_hostnames, dump_headers) ==
    /\ pc = "idle"
    /\ domains # {}
    /\ \E plan \in Plans(data, DomainKey(domain), dump_ips, dump_hostnames,
                         dump_headers) :
          \E at \in 0..Len(plan) :
              exported' =
                  [done |-> TRUE,
                   opts |-> <<dump_ips, dump_hostnames, dump_headers>>,
                   plan |-> plan,
                   at |-> at,
                   written |-> IF at = 0 THEN plan ELSE SubSeq(plan, 1, at - 1),
                   ret |-> IF at = 0 THEN ReturnAtEnd ELSE ReturnInExcept]
    /\ pc' = "dump"
    /\ dbconn' = "open"
    /\ UNCHANGED <<domain, data, domains, txn, ids, nresults, hdict, nwritten,
                   all_ok, file_index, old, watch, nseen, cut, tried, apart>>

DumpToFileCall ==
    /\ pc = "idle"
    /\ \E dump_ips, dump_hostnames, dump_headers \in BOOLEAN :
          DumpToFile(dump_ips, dump_hostnames, dump_headers)

\* The finally clause of dump_to_file and the return to the caller.
DumpReturn ==
    /\ pc = "dump"
    /\ pc' = "idle"
    /\ dbconn' = "closed"
    /\ exported' = NoExport
    /\ UNCHANGED <<domain, data, domains, txn, ids, nresults, hdict, nwritten,
                   all_ok, file_index, old, watch, nseen, cut, tried, apart>>

\* --------------------------------------------------------------- indexer
\* The tree under the working directory that glob walks.  Of a path the
\* pattern "**/*<s>*" sees the last component only: name holds the ips and
\* hostnames (and the text None) that occur in it, above those that occur
\* in its directories, and hidden says that a component starts with a dot.
Tree ==
    << [path |-> "shots/1.1.1.1_full.png", name |-> {"1.1.1.1"},
        above |-> {}, hidden |-> FALSE],
       [path |-> "shots/h1.a.com.png", name |-> {"h1.a.com"},
        above |-> {}, hidden |-> FALSE],
       [path |-> "shots/h2.x.a.com.png", name |-> {"h2.x.a.com"},
        above |-> {}, hidden |-> FALSE],
       [path |-> "1.1.1.1", name |-> {"1.1.1.1"},
        above |-> {}, hidden |-> FALSE],
       [path |-> "1.1.1.1/shot.png", name |-> {},
        above |-> {"1.1.1.1"}, hidden |-> FALSE],
       [path |-> "shots/.2.2.2.2.png", name |-> {"2.2.2.2"},
        above |-> {}, hidden |-> TRUE],
       [path |-> "shots/None.png", name |-> {"None"},
        above |-> {}, hidden |-> FALSE] >>

\* glob.glob("**/*{}*".format(v), recursive=True), as the paths it returns
RECURSIVE GlobFrom(_, _)
GlobFrom(v, k) ==
    IF k > Len(Tree) THEN <<>>
    ELSE (IF Format(v) \in Tree[k].name /\ ~Tree[k].hidden
          THEN <<Tree[k].path>> ELSE <<>>) \o GlobFrom(v, k + 1)

Glob(v) == GlobFrom(v, 1)

\* SELECT * FROM data WHERE domain=... AND (http_headers IS NOT NULL OR
\* https_headers IS NOT NULL), in rowid order
DbHeaders(tbl, dk) ==
    SelectSeq(tbl, LAMBDA r : r.domain = dk /\ (r.http_headers # NULL
                                               \/ r.https_headers # NULL))

\* SELECT DISTINCT ip, hostname FROM data WHERE domain=...
RECURSIVE DbIps(_, _)
DbIps(tbl, dk) ==
    IF tbl = <<>> THEN <<>>
    ELSE LET before == DbIps(SubSeq(tbl, 1, Len(tbl) - 1), dk)
             r == tbl[Len(tbl)]
             p == <<r.ip, r.hostname>>
         IN  IF r.domain = dk /\ ~\E j \in 1..Len(before) : before[j] = p
             THEN Append(before, p) ELSE before

\* file_index[key] = entry
Assign(fi, key, entry) ==
    [k \in DOMAIN fi \cup {key} |-> IF k = key THEN entry ELSE fi[k]]

\* First loop of _gen_output: every row with a header sets the entry of its ip.
RECURSIVE IndexHeaders(_, _)
IndexHeaders(fi, rows) ==
    IF rows = <<>> THEN fi
    ELSE LET r == Head(rows)
         IN  IndexHeaders(
                 Assign(fi, r.ip,
                        [hostnames |-> <<r.hostname>>,
                         http_header |-> r.http_headers,
                         https_header |-> r.https_headers,
                         images |-> Glob(r.ip) \o Glob(r.hostname)]),
                 Tail(rows))

\* IndexPairs with the elif branch left out: a key already present keeps the
\* hostnames it has.
RECURSIVE IndexPairsSeedOnly(_, _)
IndexPairsSeedOnly(fi, prs) ==
    IF prs = <<>> THEN fi
    ELSE LET ip == Head(prs)[1]
             hostname == Head(prs)[2]
         IN  IndexPairsSeedOnly(
                 IF ip \notin DOMAIN fi
                 THEN Assign(fi, ip, [hostnames |-> <<hostname>>,
                                      http_header |-> "", https_header |-> "",
                                      images |-> <<>>])
                 ELSE fi,
                 Tail(prs))

\* Second loop of _gen_output: every distinct (ip, hostname) seeds the entry
\* of its ip or adds its hostname to it.
RECURSIVE IndexPairs(_, _)
IndexPairs(fi, prs) ==
    IF prs = <<>> THEN fi
    ELSE LET ip == Head(prs)[1]
             hostname == Head(prs)[2]
         IN  IndexPairs(
                 IF ip \notin DOMAIN fi
                 THEN Assign(fi, ip, [hostnames |-> <<hostname>>,
                                      http_header |-> "", https_header |-> "",
                                      images |-> <<>>])
                 ELSE IF ~\E j \in 1..Len(fi[ip].hostnames) :
                              fi[ip].hostnames[j] = hostname
                      THEN Assign(fi, ip,
                                  [fi[ip] EXCEPT !.hostnames = Append(@, hostname)])
                      ELSE fi,
                 Tail(prs))

\* _gen_output: the mapping it returns
GenOutput(tbl, dk) ==
    IndexPairs(IndexHeaders(<<>>, DbHeaders(tbl, dk)), DbIps(tbl, dk))

GenOutputCall ==
    /\ pc = "idle"
    /\ domains # {}
    /\ file_index' = [built |-> TRUE, map |-> GenOutput(data, DomainKey(domain))]
    /\ dbconn' = "open"
    /\ UNCHANGED <<domain, data, domains, txn, pc, ids, nresults, hdict,
                   nwritten, all_ok, old, watch, nseen, cut, tried, exported,
                   apart>>

\* ---------------------------------------------------------- specifications
Next == AggregateCall \/ Headers \/ GenOutputCall

Spec == Init /\ [][Next]_vars

\* Several Aggregation objects, of different domains, on one database file.
NextStores == Next \/ \E d \in DomainNames : NewInstance(d)

SpecStores == Init /\ [][NextStores]_vars

\* Ingestion alone, by objects of either domain, with one pair followed.
NextIngest == AggregateCall \/ \E d \in DomainNames : NewInstance(d)

SpecIngest == InitWatch /\ [][NextIngest]_vars

\* Ingestion, enrichment and export.
NextExport == AggregateCall \/ Headers \/ DumpToFileCall \/ DumpReturn

SpecExport == Init /\ [][NextExport]_vars

\* Ingestion by objects of either domain, and export.
NextLists ==
    \/ AggregateCall
    \/ \E d \in DomainNames : NewInstance(d)
    \/ DumpToFileCall
    \/ DumpReturn

SpecLists == Init /\ [][NextLists]_vars

\* One fetch task, for every identifier and every outcome of its requests.
InitFetch ==
    InitStore /\ watch = NoWatch /\ InitSide /\ InitExtractor /\ InitPool /\ InitTaskCalled

NextFetch == HttpRequest \/ HttpsRequest

SpecFetch == InitFetch /\ [][NextFetch]_vars

\* One call of the extractor, for every file of at most MaxLines lines.
InitExtract ==
    InitStore /\ watch = NoWatch /\ InitSide /\ InitTask /\ InitPool /\ InitExtractorCalled

NextExtract == ReadLine /\ UNCHANGED <<storeVars, taskVars, poolVars, conc, sideVars>>

SpecExtract == InitExtract /\ [][NextExtract]_vars

\* Ingestion and enrichment on a store that can fail.
NextFaults ==
    \/ AggregateCall
    \/ Headers
    \/ \E kind \in StorageFailures : AggregateRaise(kind)
    \/ \E kind \in {"open", "commit"} : HeadersRaise(kind)

SpecFaults == Init /\ [][NextFaults]_vars

\* The worker pool of one wave, for every number of identifiers up to MaxTasks.
InitWave ==
    InitStore /\ watch = NoWatch /\ InitSide /\ InitExtractor /\ InitTask /\ InitPoolCalled

NextWave == TaskStart \/ TaskReturn

SpecWave == InitWave /\ [][NextWave]_vars

\* Ingestion and enrichment with the tasks of a wave followed one by one.
\* The threads are scheduled fairly: a worker thread that can take a task
\* does, a request ends (requests.get has timeout=1), and the thread that
\* called headers() goes on when it can.  A storage failure may or may not
\* occur.
MaxWave == MaxRows

NextTasks ==
    \/ AggregateCall
    \/ HeadersBegin
    \/ PoolMap
    \/ \E i \in 1..MaxWave : WorkerStart(i)
    \/ \E i \in 1..MaxWave : TaskHttp(i)
    \/ \E i \in 1..MaxWave : TaskHttps(i)
    \/ TakeResult
    \/ WaveJoin
    \/ WriteBack
    \/ CommitIpWave
    \/ CommitHostnameWave
    \/ \E kind \in {"open", "commit"} : HeadersRaise(kind)

FairTasks ==
    /\ WF_vars(PoolMap)
    /\ \A i \in 1..MaxWave : WF_vars(WorkerStart(i))
    /\ \A i \in 1..MaxWave : WF_vars(TaskHttp(i))
    /\ \A i \in 1..MaxWave : WF_vars(TaskHttps(i))
    /\ WF_vars(TakeResult)
    /\ WF_vars(WaveJoin)
    /\ WF_vars(WriteBack)
    /\ WF_vars(CommitIpWave)
    /\ WF_vars(CommitHostnameWave)

SpecTasks == Init /\ [][NextTasks]_vars /\ FairTasks

\* Ingestion, by one call at a time and by two calls at once.
NextConcurrent ==
    \/ AggregateCall
    \/ \E pa, pb \in ConcIps[domain] : ConcurrentBegin(pa, pb)
    \/ \E c \in 1..2 : InsertWithLock(c)
    \/ \E c \in 1..2 : InsertLockedOut(c)
    \/ \E c \in 1..2 : InsertNothing(c)
    \/ \E c \in 1..2 : ConcurrentCommit(c)
    \/ ConcurrentReturn

SpecConcurrent == Init /\ [][NextConcurrent]_vars

\* Every operation of the engine on one store: ingestion, enrichment, export
\* and indexing.
NextAll ==
    \/ AggregateCall
    \/ Headers
    \/ DumpToFileCall
    \/ DumpReturn
    \/ GenOutputCall

SpecAll == Init /\ [][NextAll]_vars

\* One call of _upload_files, for every tree of at most MaxFiles files.
InitUploads ==
    /\ InitStore /\ watch = NoWatch /\ conc = NoConc
    /\ InitExtractor /\ InitTask /\ InitPool /\ InitDocker
    /\ InitUploadCalled

NextUploads == NextFile \/ FileRaises \/ EndOfWalk

SpecUploads == InitUploads /\ [][NextUploads]_vars

\* One Docker object and its builds.
InitBuilds ==
    /\ InitStore /\ watch = NoWatch /\ conc = NoConc
    /\ InitExtractor /\ InitTask /\ InitPool /\ InitUpload
    /\ InitDockerObject

NextBuilds ==
    \/ \E template, writable \in BOOLEAN : MonitorBuild(template, writable)
    \/ InitConfig
    \/ PrintOptions
    \/ \E resp \in BuildResponses : ImagesBuild(resp)
    \/ MonitorExit

SpecBuilds == InitBuilds /\ [][NextBuilds]_vars

\* ================================================================ claims
RowsWith(p) ==
    {i \in 1..Len(data) : data[i].hostname = p[1] /\ data[i].ip = p[2]}

RowsOf(dk) == {i \in 1..Len(data) : data[i].domain = dk}

\* C1: a (hostname, ip) pair with both values non-null that two bulk inserts
\* of one domain contained is held by exactly one row, and the second call
\* ended with its transaction committed.
C1_IdempotentInsert ==
    \A dk \in DomainKeys :
        nseen[dk] = 2 =>
            /\ Cardinality(RowsWith(watch)) = 1
            /\ txn = "committed"

\* C2: when an INSERT of a bulk insert raised, the pairs of the batch that
\* come after it are stored all the same: a storable pair the loop did not
\* reach is in the table after the call.
C2_RestOfBatchInserted == cut => RowsWith(watch) # {}

\* C3: no two rows of data carry the same (ip, hostname), NULLs included.
C3_PairsUnique ==
    \A i, j \in 1..Len(data) :
        i # j => <<data[i].ip, data[i].hostname>> # <<data[j].ip, data[j].hostname>>

\* C4: a pair whose INSERT was executed for both domains is among the
\* targets selected for each of them.
C4_DedupScopedToDomain ==
    tried = DomainKeys =>
        \A dk \in DomainKeys : \E i \in RowsOf(dk) : i \in RowsWith(watch)

DistinctIps(dk) == {data[i].ip : i \in {j \in RowsOf(dk) : data[j].ip # NULL}}

DistinctHostnames(dk) ==
    {data[i].hostname : i \in {j \in RowsOf(dk) : data[j].hostname # NULL}}

OneTaskPer(S) ==
    /\ Len(ids) = Cardinality(S)
    /\ {ids[i] : i \in 1..Len(ids)} = S

\* C5: the first wave has one task per distinct non-null ip of the domain,
\* the second wave one task per distinct non-null hostname of the domain.
C5_WaveIdentifiers ==
    /\ pc = "fetch1" => OneTaskPer(DistinctIps(DomainKey(domain)))
    /\ pc = "fetch2" => OneTaskPer(DistinctHostnames(DomainKey(domain)))

\* C6: when headers() returns and every fetch of the call returned both
\* headers, every row of the domain has both headers.
C6_EnrichCoversAll ==
    [][(pc = "write2" /\ pc' = "idle" /\ all_ok) =>
          \A i \in 1..Len(data') :
              data'[i].domain = DomainKey(domain) =>
                  /\ data'[i].http_headers # NULL
                  /\ data'[i].https_headers # NULL]_vars

Written(j) ==
    \E r \in HeadersQuery(data, DomainKey(domain)) :
        /\ r.ip = hdict[j].key
        /\ r.http_headers = hdict[j].http
        /\ r.https_headers = hdict[j].https

\* C7 as amended: in the IP wave's write-back, the values written for an ip,
\* when both are non-null, are what the with-headers selection returns for
\* that ip, whatever the row held before.
C7_HeaderRoundTrip ==
    pc = "write1" =>
        \A j \in 1..nwritten :
            (hdict[j].http # NULL /\ hdict[j].https # NULL) => Written(j)

\* C7 as claimed: every pair of values written for an ip, a null one
\* included, is what the with-headers selection returns for that ip.
C7_RoundTripAnyValues ==
    pc = "write1" => \A j \in 1..nwritten : Written(j)

\* The IP wave has just overwritten a row that held other headers.
C7_Witness ==
    /\ pc = "write1"
    /\ nwritten >= 1
    /\ hdict[nwritten].http # NULL
    /\ hdict[nwritten].https # NULL
    /\ old # NoHeaders
    /\ old # <<hdict[nwritten].http, hdict[nwritten].https>>
    /\ Written(nwritten)

\* C8: one UPDATE of a write-back loop changes at most one row, gives that
\* row both new header values, and changes no ip, hostname or domain.
C8_SingleRowUpdate ==
    [][nwritten' = nwritten + 1 =>
          /\ Len(data') = Len(data)
          /\ Cardinality({i \in 1..Len(data) : data'[i] # data[i]}) <= 1
          /\ \A i \in 1..Len(data) :
                /\ data'[i].ip = data[i].ip
                /\ data'[i].hostname = data[i].hostname
                /\ data'[i].domain = data[i].domain
                /\ data'[i] # data[i] =>
                      /\ data'[i].http_headers = hdict[nwritten'].http
                      /\ data'[i].https_headers = hdict[nwritten'].https
                      /\ data[i].domain = DomainKey(domain)]_vars

\* An UPDATE has changed one of two rows of the domain that share its ip.
C8_Witness ==
    /\ pc = "write1"
    /\ nwritten >= 1
    /\ old # <<hdict[nwritten].http, hdict[nwritten].https>>
    /\ \E i, j \in RowsOf(DomainKey(domain)) :
          /\ i # j
          /\ data[i].ip = hdict[nwritten].key
          /\ data[j].ip = hdict[nwritten].key
          /\ <<data[i].http_headers, data[i].https_headers>>
                = <<hdict[nwritten].http, hdict[nwritten].https>>
          /\ <<data[j].http_headers, data[j].https_headers>>
                # <<hdict[nwritten].http, hdict[nwritten].https>>

\* C9: the mapping _gen_output returns has no null key.
C9_NoNullIndexKey == file_index.built => NULL \notin DOMAIN file_index.map

InSeq(x, sq) == \E j \in 1..Len(sq) : sq[j] = x

\* C10: for every row of the domain with a header and an ip, every path the
\* search finds for the row's ip, and every path it finds for the row's
\* hostname, is among the images of the entry of that ip.
C10_IndexImagesComplete ==
    file_index.built =>
        \A i \in RowsOf(DomainKey(domain)) :
            (/\ data[i].ip # NULL
             /\ (data[i].http_headers # NULL \/ data[i].https_headers # NULL)) =>
                /\ data[i].ip \in DOMAIN file_index.map
                /\ \A k \in 1..Len(Tree) :
                      (/\ ~Tree[k].hidden
                       /\ \/ data[i].ip \in Tree[k].name
                          \/ data[i].hostname \in Tree[k].name) =>
                          InSeq(Tree[k].path, file_index.map[data[i].ip].images)

\* C11: for every key of the returned mapping, the hostnames of its entry
\* are exactly the hostname values of the rows of the domain that have that
\* ip, rows with and without headers, and no value occurs twice.
C11_IndexHostnamesExact ==
    file_index.built =>
        \A k \in DOMAIN file_index.map :
            LET hs == file_index.map[k].hostnames
            IN  /\ {hs[j] : j \in 1..Len(hs)}
                      = {data[i].hostname :
                            i \in {n \in RowsOf(DomainKey(domain)) : data[n].ip = k}}
                /\ \A a, b \in 1..Len(hs) : a # b => hs[a] # hs[b]

\* The mapping has an entry seeded by a row with a header to which the
\* second loop added the hostname of another row.
C11_Witness ==
    /\ file_index.built
    /\ \E k \in DOMAIN file_index.map :
          /\ k # NULL
          /\ Len(file_index.map[k].hostnames) = 2
          /\ file_index.map[k].https_header # ""

\* The lines of the file of that name among the files the call wrote.
LinesWritten(name) ==
    LET w == exported.written
        k == CHOOSE k \in 1..Len(w) : w[k].name = name
    IN  w[k].lines

\* C12: when an output step of dump_to_file raised, the steps after it wrote
\* nothing, the files of the steps before it are the ones written, and the
\* value returned differs from the value a call without failure returns.
C12_ExportFailureReported ==
    (exported.done /\ exported.at > 0) =>
        /\ exported.written = SubSeq(exported.plan, 1, exported.at - 1)
        /\ exported.ret # ReturnAtEnd

\* C17: after a call without failure with dump_ips and dump_hostnames set,
\* aggregated_ips.txt lists each distinct non-null ip of the domain once and
\* nothing else, aggregated_hostnames.txt does so for the hostnames, and
\* aggregated_protocol_hostnames.txt holds for the j-th hostname the line
\* https://<host> followed by the line http://<host>, and nothing else.
C17_ExportedLists ==
    (/\ exported.done
     /\ exported.at = 0
     /\ exported.opts[1]
     /\ exported.opts[2]) =>
        LET ipl == LinesWritten(IpsFile)
            hl == LinesWritten(HostnamesFile)
            pl == LinesWritten(ProtocolFile)
        IN  /\ Len(ipl) = Cardinality(DistinctIps(DomainKey(domain)))
            /\ {ipl[j] : j \in 1..Len(ipl)} = DistinctIps(DomainKey(domain))
            /\ Len(hl) = Cardinality(DistinctHostnames(DomainKey(domain)))
            /\ {hl[j] : j \in 1..Len(hl)} = DistinctHostnames(DomainKey(domain))
            /\ Len(pl) = 2 * Len(hl)
            /\ \A j \in 1..Len(hl) :
                  /\ pl[2 * j - 1] = <<"https://", hl[j]>>
                  /\ pl[2 * j] = <<"http://", hl[j]>>

\* Such a call has listed an ip and a hostname while the store holds an ip of
\* another domain that no row of this domain has.
C17_Witness ==
    /\ exported.done
    /\ exported.at = 0
    /\ exported.opts[1]
    /\ exported.opts[2]
    /\ Len(LinesWritten(HostnamesFile)) = 1
    /\ Len(LinesWritten(IpsFile)) = 1
    /\ \E i \in 1..Len(data) :
          /\ data[i].domain # DomainKey(domain)
          /\ data[i].ip # NULL
          /\ data[i].ip \notin DistinctIps(DomainKey(domain))

Emitted(j) ==
    /\ j <= Len(lookups)
    /\ lookups[j].n = (IF j = 1 THEN 0 ELSE lookups[j - 1].n) + 1

\* C14: for a line read that holds both a hostname of the domain and an ip,
\* in either order and wherever they stand, the pair appended is (that
\* hostname, that ip) and no DNS lookup was made for the line.
C14_BothFieldsNoLookup ==
    \A j \in 1..Len(lookups) :
        (f_lines[j].host_in # NULL /\ f_lines[j].ip_in # NULL) =>
            /\ Emitted(j)
            /\ results[lookups[j].n] = <<f_lines[j].host_in, f_lines[j].ip_in>>
            /\ ~lookups[j].fwd
            /\ ~lookups[j].rev

\* C15: a line whose forward or reverse lookup raised still has its pair
\* appended, with the unresolved field None; and the loop goes on to every
\* later line of the file.
C15_DnsFailureSwallowed ==
    /\ \A j \in 1..Len(lookups) :
          /\ (lookups[j].fwd /\ f_lines[j].fwd = NULL) =>
                /\ Emitted(j)
                /\ results[lookups[j].n] = <<f_lines[j].host_in, NULL>>
          /\ (lookups[j].rev /\ f_lines[j].rev = NULL) =>
                /\ Emitted(j)
                /\ results[lookups[j].n] = <<NULL, f_lines[j].ip_in>>
    /\ Len(lookups) < Len(f_lines) => ENABLED ReadLine

\* The first line's forward lookup raised, its pair was appended, and the
\* second line has been read and its pair appended as well.
C15_Witness ==
    /\ Len(lookups) = 2
    /\ lookups[1].fwd
    /\ f_lines[1].fwd = NULL
    /\ Emitted(1)
    /\ Emitted(2)
    /\ Len(results) = 2

\* C16: when aggregate or headers has ended with a storage error raised to
\* its caller, the connection the call opened is not left open.
C16_ConnectionReleased == pc = "raised" => dbconn # "open"

\* C18: within a wave a row changes only in the write-back loop, after every
\* result of the wave's pool.map has been taken and inside the transaction;
\* and that transaction begins only then.
C18_WriteBackAfterFetches ==
    [][/\ (pc \in {"fetch1", "fetch2", "write1", "write2"} /\ data' # data) =>
             /\ pc \in {"write1", "write2"}
             /\ nresults = Len(ids)
             /\ txn = "open"
       /\ (pc \in {"fetch1", "fetch2"} /\ txn' = "open") =>
             nresults = Len(ids)]_vars

\* The IP wave of two tasks has written a header into a row.
C18_Witness ==
    /\ pc = "write1"
    /\ Len(ids) = 2
    /\ nresults = 2
    /\ nwritten >= 1
    /\ txn = "open"
    /\ \E i \in 1..Len(data) : data[i].http_headers # NULL

\* C19: the second wave is entered from the end of the IP wave's write-back
\* loop, with the IP wave's transaction committed, and its identifiers are
\* selected from the store as the IP wave left it; while the second wave
\* fetches, no transaction is open.
C19_WavesSequential ==
    [][/\ (pc # "fetch2" /\ pc' = "fetch2") =>
             /\ pc = "write1"
             /\ nwritten = Len(hdict)
             /\ nresults' = 0
             /\ data' = data
             /\ ids' = HostnamesQuery(data, DomainKey(domain))
       /\ pc' = "fetch2" => txn' = "committed"]_vars

\* The second wave is fetching after the IP wave wrote a header.
C19_Witness ==
    /\ pc = "fetch2"
    /\ nresults >= 1
    /\ txn = "committed"
    /\ \E i \in 1..Len(data) : data[i].https_headers # NULL

\* C20: at most 40 fetch tasks are running at any moment.
C20_BoundedConcurrency == running <= 40

\* 40 tasks are running while another waits in the queue.
C20_Witness == running = 40 /\ queued > 0
\* A task of the wave has returned after a request of it timed out.
SomeTimedOut ==
    \E i \in 1..Len(futures) : futures[i].st = "returned" /\ futures[i].timed

\* Every task of the wave whose result is not taken yet has returned.
AllReturned == \A i \in 1..Len(futures) : futures[i].st = "returned"

OneAfterTheOther(tbl, first, second) ==
    BuildDb(BuildDb(tbl, domains, first, DomainKey(domain)).tbl, domains,
            second, DomainKey(domain)).tbl

\* C22: of two aggregate calls running at once at most one has a write
\* transaction open, and when both have ended the table is the one their
\* two bulk inserts leave when run one after the other, in one of the two
\* orders.
C22_ConcurrentInsertsSerialized ==
    /\ Cardinality(Writing) <= 1
    /\ (pc = "conc" /\ \A c \in 1..2 : conc.calls[c].pc = "done") =>
          data \in {OneAfterTheOther(conc.base, conc.calls[1].pairs,
                                     conc.calls[2].pairs),
                    OneAfterTheOther(conc.base, conc.calls[2].pairs,
                                     conc.calls[1].pairs)}
\* C23: a line whose forward lookup answered has the pair (its hostname, the
\* address answered) appended; a line whose reverse lookup answered has a
\* pair appended with its ip unchanged and, as hostname, a single host name
\* that an INSERT can bind.
C23_DnsFillsMissingField ==
    \A j \in 1..Len(lookups) :
        /\ (lookups[j].fwd /\ f_lines[j].fwd # NULL) =>
              /\ Emitted(j)
              /\ results[lookups[j].n] = <<f_lines[j].host_in, f_lines[j].fwd>>
        /\ (lookups[j].rev /\ f_lines[j].rev # NULL) =>
              /\ Emitted(j)
              /\ results[lookups[j].n][2] = f_lines[j].ip_in
              /\ results[lookups[j].n][1] \in Hosts
              /\ Bindable(results[lookups[j].n][1])
\* C24: every row of data, whatever batches the extractor returned to the
\* aggregate calls so far, has a non-null ip or a non-null hostname.
C24_NoEmptyObservation ==
    \A i \in 1..Len(data) : data[i].ip # NULL \/ data[i].hostname # NULL

\* The store holds a row without hostname and a row without ip.
C24_Witness ==
    /\ \E i \in 1..Len(data) : data[i].hostname = NULL /\ data[i].ip # NULL
    /\ \E i \in 1..Len(data) : data[i].ip = NULL /\ data[i].hostname # NULL
\* The (ip, hostname, domain) of the rows of a table.
Triples(tbl) ==
    {<<tbl[i].ip, tbl[i].hostname, tbl[i].domain>> : i \in 1..Len(tbl)}

\* C25: a step of aggregate, headers, dump_to_file or _gen_output keeps
\* every (ip, hostname, domain) of the table and every row in its place; a
\* row it adds has both headers null; and a step of dump_to_file (into or
\* out of "dump") or of _gen_output (a mapping is returned to an idle
\* caller) changes neither table.
C25_RowsCreatedBareAndKept ==
    [][/\ Triples(data) \subseteq Triples(data')
       /\ Len(data') >= Len(data)
       /\ \A i \in 1..Len(data) :
             /\ data'[i].ip = data[i].ip
             /\ data'[i].hostname = data[i].hostname
             /\ data'[i].domain = data[i].domain
       /\ \A i \in (Len(data) + 1)..Len(data') :
             /\ data'[i].http_headers = NULL
             /\ data'[i].https_headers = NULL
       /\ (\/ pc' = "dump"
           \/ pc = "dump"
           \/ pc = "idle" /\ pc' = "idle" /\ file_index'.built) =>
             /\ data' = data
             /\ domains' = domains
             /\ txn' = txn]_vars

\* dump_to_file is running on a store where a later aggregate call added a
\* row, with null headers, to a row that headers() had filled.
C25_Witness ==
    /\ pc = "dump"
    /\ Len(data) = 2
    /\ data[1].http_headers # NULL
    /\ data[2].http_headers = NULL
    /\ data[2].https_headers = NULL
    /\ exported.written # <<>>
\* The ids of the posts created, post after post.
RECURSIVE Posted(_)
Posted(ps) == IF ps = <<>> THEN <<>> ELSE Head(ps) \o Posted(Tail(ps))

NoRepeat(sq) == \A a, b \in 1..Len(sq) : a # b => sq[a] # sq[b]

\* C26: no file larger than 49 MiB is uploaded and no file is uploaded
\* twice; every post created carries between 1 and 5 ids, all of uploaded
\* files, and no id is in two posts; and when the walk has ended every file
\* of at most 49 MiB has been uploaded and its id is in a post.
C26_UploadBatching ==
    /\ \A j \in 1..Len(uploads) : u_files[uploads[j]] <= 49 * 1024 * 1024
    /\ NoRepeat(uploads)
    /\ \A k \in 1..Len(posts) : Len(posts[k]) \in 1..5
    /\ NoRepeat(Posted(posts))
    /\ \A j \in 1..Len(Posted(posts)) : InSeq(Posted(posts)[j], uploads)
    /\ u_pc = "done" =>
          \A f \in 1..Len(u_files) :
              u_files[f] <= 49 * 1024 * 1024 =>
                  /\ InSeq(f, uploads)
                  /\ InSeq(f, Posted(posts))

\* The walk has ended with a post of five ids and a smaller last post, one
\* of the files being of 49 MiB to the byte and another too large.
C26_Witness ==
    /\ u_pc = "done"
    /\ Len(posts) = 2
    /\ Len(posts[1]) = 5
    /\ Len(posts[2]) < 5
    /\ \E f \in 1..Len(u_files) : u_files[f] = 49 * 1024 * 1024
    /\ \E f \in 1..Len(u_files) : u_files[f] > 49 * 1024 * 1024

\* C27: when build has returned to monitor_build, the image is set or error
\* or done_building is True, so that the condition of the polling loop is
\* false; and error and done_building are not both True.
C27_BuildEndsPolling ==
    /\ d_pc = "polling" => ~LoopCondition
    /\ ~(error /\ done_building)
====
